---- MODULE Spec2Model ----
(***************************************************************************)
(* miniDB: the SimplifiedBitcask storage engine of src/kv/storage.rs.      *)
(*                                                                         *)
(* The log is modelled record by record.  A string is a run of `len`       *)
(* copies of one character, so that byte lengths are the real ones and the *)
(* real COMPACTION_THRESHOLD and the real buffer capacity of the standard  *)
(* BufWriter can be used.  A file is the sequence of encoded records that  *)
(* have reached the operating system; the bytes still held in the writer's *)
(* BufWriter are a separate sequence.  The process may crash, and the      *)
(* flush of a set may fail after a part of the record's header has reached *)
(* the file; no other I/O call fails.                                      *)
(***************************************************************************)
EXTENDS Integers, Sequences, FiniteSets, TLC

\* ------------------------------------------------------------------ bounds

\* A set or remove is taken only while the log (file and writer buffer)
\* holds fewer than MaxLogLen records.
MaxLogLen == 3

\* Byte length of the long value: one superseded record of this length
\* exceeds COMPACTION_THRESHOLD, and its record exceeds BUF_CAPACITY.
BigLen == 70000

\* ------------------------------------------------------- program constants

COMPACTION_THRESHOLD == 65536

USIZE_LEN == 8

ENTRY_HEAD_LEN == USIZE_LEN * 2 + 1

\* Capacity of std::io::BufWriter::new, the buffer inside BufWriterWithPos.
BUF_CAPACITY == 8192

PUT == "PUT"

DEL == "DEL"

\* ------------------------------------------------------------------ inputs

\* A string of len bytes, all equal to ch.
Str(ch, len) == [ch |-> ch, len |-> len]

\* String::new()
EmptyStr == Str("", 0)

Keys == {Str("a", 1), Str("b", 2)}

Values == {Str("x", 1), Str("z", BigLen)}

\* Option<T>: None is <<>>, Some(v) is <<v>>.
None == <<>>

Some(v) == <<v>>

\* ------------------------------------------------------------ record codec

\* Entry::new
EntryNew(key, value, kind) ==
    [key_len |-> key.len, value_len |-> value.len,
     key |-> key, value |-> value, kind |-> kind]

\* Entry::size
size(e) == ENTRY_HEAD_LEN + e.key_len + e.value_len

\* bincode::serialize(&kind): the repr(u8) discriminant.
KindByte(kind) == IF kind = PUT THEN 1 ELSE 2

RECURSIVE be_bytes(_, _)
\* The n low-order bytes of v, most significant first.
be_bytes(v, n) ==
    IF n = 0 THEN <<>> ELSE Append(be_bytes(v \div 256, n - 1), v % 256)

\* usize::to_be_bytes
to_be_bytes(v) == be_bytes(v, USIZE_LEN)

RECURSIVE be_value(_, _, _)
\* The number whose big-endian bytes are b[from..to].
be_value(b, from, to) ==
    IF to < from THEN 0 ELSE be_value(b, from, to - 1) * 256 + b[to]

\* An encoder that writes value_len before key_len.
encode_lengths_swapped(e) ==
    [head |-> to_be_bytes(e.value_len) \o to_be_bytes(e.key_len)
                \o <<KindByte(e.kind)>>,
     key |-> e.key, value |-> e.value]

\* Entry::encode: the header bytes (key_len, value_len, kind), followed by
\* the key and the value bytes.
encode(e) ==
    [head |-> to_be_bytes(e.key_len) \o to_be_bytes(e.value_len)
                \o <<KindByte(e.kind)>>,
     key |-> e.key, value |-> e.value]

\* Number of bytes of an encoded record, or of the part of one that is in
\* a file.
FrameLen(f) == Len(f.head) + f.key.len + f.value.len

\* Entry::decode of a header buffer of ENTRY_HEAD_LEN bytes: the header
\* alone; key and value are left empty.  A kind byte other than 1 or 2 is a
\* ReprDecode error.
decode(b) ==
    IF b[ENTRY_HEAD_LEN] \in {1, 2}
    THEN [tag |-> "Ok",
          e |-> [key_len |-> be_value(b, 1, USIZE_LEN),
                 value_len |-> be_value(b, USIZE_LEN + 1, USIZE_LEN * 2),
                 key |-> EmptyStr, value |-> EmptyStr,
                 kind |-> IF b[ENTRY_HEAD_LEN] = 1 THEN PUT ELSE DEL]]
    ELSE [tag |-> "ReprDecode",
          e |-> EntryNew(EmptyStr, EmptyStr, PUT)]

\* ------------------------------------------------------------------- files

RECURSIVE ByteLen(_)
\* Length in bytes of a sequence of encoded records.
ByteLen(file) ==
    IF file = <<>> THEN 0
    ELSE FrameLen(Head(file)) + ByteLen(Tail(file))

\* Offset of the first byte of the i-th record of a file.
StartOf(file, i) == ByteLen(SubSeq(file, 1, i - 1))

\* HashMap::insert on the index.
insert(idx, key, pos) ==
    [k \in (DOMAIN idx) \cup {key} |-> IF k = key THEN pos ELSE idx[k]]

\* HashMap::remove on the index.
erase(idx, key) == [k \in (DOMAIN idx) \ {key} |-> idx[k]]

\* HashMap::new()
EmptyIndex == [k \in {} |-> 0]

\* ------------------------------------------------------- positioned writer

\* BufWriterWithPos::new on a file whose position is 0.
NewWriter(file) == [file |-> file, buf |-> <<>>, pos |-> 0]

\* BufWriterWithPos::write over std BufWriter::write: a record that does not
\* fit beside the buffered bytes first flushes the buffer; a record at least
\* as long as the capacity goes straight to the file, any other one is kept
\* in the buffer.  pos advances by the record's length.
BufWrite(w, frame) ==
    LET n == FrameLen(frame)
        spill == ByteLen(w.buf) + n > BUF_CAPACITY
        file1 == IF spill THEN w.file \o w.buf ELSE w.file
        buf1 == IF spill THEN <<>> ELSE w.buf
    IN  IF n >= BUF_CAPACITY
        THEN [file |-> Append(file1, frame), buf |-> buf1, pos |-> w.pos + n]
        ELSE [file |-> file1, buf |-> Append(buf1, frame), pos |-> w.pos + n]

\* BufWriterWithPos::flush: the buffered bytes reach the file.
BufFlush(w) == [file |-> w.file \o w.buf, buf |-> <<>>, pos |-> w.pos]

\* ------------------------------------------------------------------ engine

\* The header buffer of read_at after a read that returned the bytes got:
\* the buffer starts as zeros and only the bytes read are overwritten.
HeaderBuf(got) == got \o [i \in 1..(ENTRY_HEAD_LEN - Len(got)) |-> 0]

\* The first n bytes of an encoded record: what a write that failed after n
\* bytes of the header has left in the file.
Torn(frame, n) ==
    [head |-> SubSeq(frame.head, 1, n), key |-> EmptyStr, value |-> EmptyStr]

\* read_at that takes a header read of fewer than ENTRY_HEAD_LEN bytes for
\* the end of the file.
read_at_short_header_is_eof(file, offset) ==
    LET at == {i \in 1..Len(file) : StartOf(file, i) = offset}
    IN  IF at = {}
        THEN [tag |-> IF offset >= ByteLen(file) THEN "EOF" ELSE "Corrupt",
              e |-> EntryNew(EmptyStr, EmptyStr, PUT)]
        ELSE LET i == CHOOSE j \in at : TRUE
                 d == decode(HeaderBuf(file[i].head))
             IN  IF Len(file[i].head) < ENTRY_HEAD_LEN
                 THEN [tag |-> "EOF", e |-> EntryNew(EmptyStr, EmptyStr, PUT)]
                 ELSE IF d.tag = "Ok"
                 THEN [tag |-> "Ok",
                       e |-> [d.e EXCEPT !.key = file[i].key,
                                         !.value = file[i].value]]
                 ELSE d

\* SimplifiedBitcask::read_at through the reader, which sees the bytes that
\* have reached the file.  A header read of 0 bytes is EOF; a shorter header
\* is decoded as it stands in the zeroed buffer.
read_at(file, offset) ==
    LET at == {i \in 1..Len(file) : StartOf(file, i) = offset}
    IN  IF at = {}
        THEN [tag |-> IF offset >= ByteLen(file) THEN "EOF" ELSE "Corrupt",
              e |-> EntryNew(EmptyStr, EmptyStr, PUT)]
        ELSE LET i == CHOOSE j \in at : TRUE
                 d == decode(HeaderBuf(file[i].head))
             IN  IF d.tag = "Ok"
                 THEN [tag |-> "Ok",
                       e |-> [d.e EXCEPT !.key = file[i].key,
                                         !.value = file[i].value]]
                 ELSE d

\* The fields of SimplifiedBitcask: file is the content of the active file
\* as the reader sees it, buf and pos are the writer's buffer and offset.
EngineOf(file, buf, pos, idx, pending) ==
    [file |-> file, buf |-> buf, pos |-> pos, index |-> idx,
     pending_compact |-> pending]

\* The writer of an engine, and an engine with its writer replaced.
WriterOf(s) == [file |-> s.file, buf |-> s.buf, pos |-> s.pos]

WithWriter(s, w) == [s EXCEPT !.file = w.file, !.buf = w.buf, !.pos = w.pos]

\* write that adds the size of the new record, not of the superseded one,
\* to pending_compact.
write_counts_new_record(s, entry) ==
    LET key == entry.key
        old_pos == IF key \in DOMAIN s.index THEN Some(s.index[key]) ELSE None
        s1 == [s EXCEPT !.index = insert(s.index, key, s.pos)]
        r == IF old_pos # None THEN read_at(s.file, old_pos[1])
             ELSE [tag |-> "Ok", e |-> entry]
    IN  IF old_pos # None /\ r.tag # "Ok"
        THEN [res |-> "Panic", s |-> s1]
        ELSE LET s2 == IF old_pos # None
                       THEN [s1 EXCEPT !.pending_compact = @ + size(entry)]
                       ELSE s1
                 w == BufFlush(BufWrite(WriterOf(s2), encode(entry)))
             IN  [res |-> "Ok", s |-> WithWriter(s2, w)]

\* SimplifiedBitcask::write.  The index is updated first; the superseded
\* record is read back with unwrap(), so a failed read is a panic that
\* leaves the record unwritten.
write(s, entry) ==
    LET key == entry.key
        old_pos == IF key \in DOMAIN s.index THEN Some(s.index[key]) ELSE None
        s1 == [s EXCEPT !.index = insert(s.index, key, s.pos)]
        r == IF old_pos # None THEN read_at(s.file, old_pos[1])
             ELSE [tag |-> "Ok", e |-> entry]
    IN  IF old_pos # None /\ r.tag # "Ok"
        THEN [res |-> "Panic", s |-> s1]
        ELSE LET s2 == IF old_pos # None
                       THEN [s1 EXCEPT !.pending_compact = @ + size(r.e)]
                       ELSE s1
                 w == BufFlush(BufWrite(WriterOf(s2), encode(entry)))
             IN  [res |-> "Ok", s |-> WithWriter(s2, w)]

\* SimplifiedBitcask::read
read(s, key) ==
    IF key \in DOMAIN s.index THEN read_at(s.file, s.index[key])
    ELSE [tag |-> "KeyNotFound", e |-> EntryNew(EmptyStr, EmptyStr, PUT)]

\* SimplifiedBitcask::get: Ok(Some(value)), Ok(None) or the error of read.
get(s, key) ==
    LET r == read(s, key)
    IN  CASE r.tag = "Ok" -> [tag |-> "Ok", val |-> Some(r.e.value)]
          [] r.tag = "KeyNotFound" -> [tag |-> "Ok", val |-> None]
          [] OTHER -> [tag |-> r.tag, val |-> None]

RECURSIVE load_index_keeps_deleted(_, _, _)
\* load_index with the DEL arm lost: a DEL record leaves the index alone.
load_index_keeps_deleted(file, offset, idx) ==
    LET r == read_at(file, offset)
    IN  CASE r.tag = "Ok" ->
               load_index_keeps_deleted(file, offset + size(r.e),
                               IF r.e.kind = DEL THEN idx
                               ELSE insert(idx, r.e.key, offset))
          [] r.tag = "EOF" -> [res |-> "Ok", index |-> idx, pos |-> offset]
          [] OTHER -> [res |-> r.tag, index |-> idx, pos |-> 0]

RECURSIVE load_index_loop(_, _, _)
\* The loop of SimplifiedBitcask::load_index from the given offset.
load_index_loop(file, offset, idx) ==
    LET r == read_at(file, offset)
    IN  CASE r.tag = "Ok" ->
               load_index_loop(file, offset + size(r.e),
                               IF r.e.kind = DEL THEN erase(idx, r.e.key)
                               ELSE insert(idx, r.e.key, offset))
          [] r.tag = "EOF" -> [res |-> "Ok", index |-> idx, pos |-> offset]
          [] OTHER -> [res |-> r.tag, index |-> idx, pos |-> 0]

\* SimplifiedBitcask::load_index
load_index(file) == load_index_loop(file, 0, EmptyIndex)

\* SimplifiedBitcask::open on the content of miniDB.data, which is created
\* empty when it is missing (None).
open(data) ==
    LET file == IF data = None THEN <<>> ELSE data[1]
        l == load_index(file)
    IN  [res |-> l.res, s |-> EngineOf(file, <<>>, l.pos, l.index, 0)]

RECURSIVE merge_scan(_, _, _)
\* The scan loop of SimplifiedBitcask::merge: the PUT records the index
\* points at, in file order.
merge_scan(s, offset, valid_entry) ==
    LET r == read_at(s.file, offset)
    IN  CASE r.tag = "Ok" ->
               merge_scan(s, offset + size(r.e),
                          IF /\ r.e.key \in DOMAIN s.index
                             /\ r.e.kind = PUT
                             /\ s.index[r.e.key] = offset
                          THEN Append(valid_entry, r.e)
                          ELSE valid_entry)
          [] r.tag = "EOF" -> [res |-> "Ok", valid_entry |-> valid_entry]
          [] OTHER -> [res |-> r.tag, valid_entry |-> valid_entry]

RECURSIVE merge_rewrite_indexes_late(_, _, _)
\* merge's rewrite loop with the two statements swapped: the record is
\* written first and indexed at the offset that follows it.
merge_rewrite_indexes_late(write_buf, idx, valid_entry) ==
    IF valid_entry = <<>> THEN [write_buf |-> write_buf, index |-> idx]
    ELSE LET e == Head(valid_entry)
             w == BufWrite(write_buf, encode(e))
         IN  merge_rewrite_indexes_late(w, insert(idx, e.key, w.pos),
                                        Tail(valid_entry))

RECURSIVE merge_rewrite(_, _, _)
\* The rewrite loop of SimplifiedBitcask::merge: every live record is
\* indexed at write_buf.pos and written to write_buf.  No flush follows.
merge_rewrite(write_buf, idx, valid_entry) ==
    IF valid_entry = <<>> THEN [write_buf |-> write_buf, index |-> idx]
    ELSE LET e == Head(valid_entry)
         IN  merge_rewrite(BufWrite(write_buf, encode(e)),
                           insert(idx, e.key, write_buf.pos),
                           Tail(valid_entry))

\* SimplifiedBitcask::merge.  The merge file becomes the active file (the
\* writer and the reader are replaced, miniDB.data is deleted and
\* miniDB.merge renamed to it); the writer keeps what it has buffered.
merge(s) ==
    LET scan == merge_scan(s, 0, <<>>)
    IN  IF scan.res # "Ok" THEN [res |-> scan.res, s |-> s]
        ELSE IF scan.valid_entry # <<>>
        THEN LET m == merge_rewrite(NewWriter(<<>>), s.index, scan.valid_entry)
             IN  [res |-> "Ok",
                  s |-> EngineOf(m.write_buf.file, m.write_buf.buf,
                                 m.write_buf.pos, m.index, 0)]
        ELSE [res |-> "Ok", s |-> [s EXCEPT !.pending_compact = 0]]

\* put that tests the threshold and merges before it writes the record.
put_merges_before_write(s, key, val) ==
    IF s.pending_compact >= COMPACTION_THRESHOLD
    THEN LET m == merge(s)
             w == write(m.s, EntryNew(key, val, PUT))
         IN  IF m.res # "Ok" THEN [res |-> m.res, s |-> m.s, merged |-> TRUE]
             ELSE [res |-> w.res, s |-> w.s, merged |-> TRUE]
    ELSE LET w == write(s, EntryNew(key, val, PUT))
         IN  [res |-> w.res, s |-> w.s, merged |-> FALSE]

\* put without the threshold test: the record is written and no merge runs.
put_without_trigger(s, key, val) ==
    LET w == write(s, EntryNew(key, val, PUT))
    IN  [res |-> w.res, s |-> w.s, merged |-> FALSE]

\* SimplifiedBitcask::put; merged tells whether the merge ran.
put(s, key, val) ==
    LET w == write(s, EntryNew(key, val, PUT))
    IN  IF w.res # "Ok" THEN [res |-> w.res, s |-> w.s, merged |-> FALSE]
        ELSE IF w.s.pending_compact >= COMPACTION_THRESHOLD
        THEN LET m == merge(w.s)
             IN  [res |-> m.res, s |-> m.s, merged |-> TRUE]
        ELSE [res |-> "Ok", s |-> w.s, merged |-> FALSE]

\* remove without the contains_key test: the DEL record is always written.
remove_unchecked(s, key) ==
    LET w == write(s, EntryNew(key, EmptyStr, DEL))
    IN  IF w.res # "Ok" THEN w
        ELSE [res |-> "Ok",
              s |-> [w.s EXCEPT !.index = erase(w.s.index, key)]]

\* SimplifiedBitcask::remove
remove(s, key) ==
    IF key \in DOMAIN s.index
    THEN LET w == write(s, EntryNew(key, EmptyStr, DEL))
         IN  IF w.res # "Ok" THEN w
             ELSE [res |-> "Ok",
                   s |-> [w.s EXCEPT !.index = erase(w.s.index, key)]]
    ELSE [res |-> "KeyNotFound", s |-> s]

\* The directory after a crash inside a merge of engine s, by the last step
\* that completed: File::create of miniDB.merge ("created"), the rewrite loop
\* ("written"), remove_file of miniDB.data ("removed"), the rename
\* ("renamed").  What the merge writer still buffers dies with the process.
MergeSteps == {"created", "written", "removed", "renamed"}

MergeCrashDisk(s, step) ==
    LET scan == merge_scan(s, 0, <<>>)
        m == merge_rewrite(NewWriter(<<>>), s.index, scan.valid_entry)
    IN  CASE step = "created" -> [data |-> Some(s.file), merge |-> Some(<<>>)]
          [] step = "written" ->
               [data |-> Some(s.file), merge |-> Some(m.write_buf.file)]
          [] step = "removed" ->
               [data |-> None, merge |-> Some(m.write_buf.file)]
          [] OTHER -> [data |-> Some(m.write_buf.file), merge |-> None]

\* ------------------------------------------------------------------- state

VARIABLES
    phase,            \* "open": an engine instance exists; "closed": it was
                      \* dropped; "dead": the process crashed or panicked
    data_file,        \* miniDB.data on disk: None, or Some(records)
    merge_file,       \* miniDB.merge on disk: None, or Some(records)
    writer_buf,       \* records held in the writer's BufWriter
    writer_pos,       \* writer.pos
    index,            \* index: key -> offset
    pending_compact,  \* pending_compact
    lastOp,           \* the last operation and what it returned
    removed           \* keys whose last set or remove was a successful remove

vars == <<phase, data_file, merge_file, writer_buf, writer_pos, index,
          pending_compact, lastOp, removed>>

\* The engine instance held in the variables.
Engine ==
    EngineOf(data_file[1], writer_buf, writer_pos, index, pending_compact)

\* The engine instance becomes s.
SetEngine(s) ==
    /\ data_file' = Some(s.file)
    /\ writer_buf' = s.buf
    /\ writer_pos' = s.pos
    /\ index' = s.index
    /\ pending_compact' = s.pending_compact

\* The process is gone: nothing of the engine is left in memory.
NoEngine ==
    /\ writer_buf' = <<>>
    /\ writer_pos' = 0
    /\ index' = EmptyIndex
    /\ pending_compact' = 0

Op(op, key, val, res, out, merged, step) ==
    [op |-> op, key |-> key, val |-> val, res |-> res, out |-> out,
     merged |-> merged, step |-> step]

LogLen == Len(data_file[1]) + Len(writer_buf)

\* KvStore::open on a fresh directory.
Init ==
    /\ phase = "open"
    /\ data_file = Some(<<>>)
    /\ merge_file = None
    /\ writer_buf = <<>>
    /\ writer_pos = 0
    /\ index = EmptyIndex
    /\ pending_compact = 0
    /\ lastOp = Op("open", EmptyStr, EmptyStr, "Ok", None, FALSE, "fresh")
    /\ removed = {}

\* A panic unwinds (the writer is dropped, which flushes it) or aborts the
\* process, as the build decides.
Panicked(s, op, key, val) ==
    /\ phase' = "dead"
    /\ \E unwind \in BOOLEAN :
          data_file' = Some(IF unwind THEN s.file \o s.buf ELSE s.file)
    /\ NoEngine
    /\ lastOp' = Op(op, key, val, "Panic", None, FALSE, "none")
    /\ UNCHANGED <<merge_file, removed>>

\* KvStore::set
Put(key, val) ==
    /\ phase = "open"
    /\ LogLen < MaxLogLen
    /\ LET r == put(Engine, key, val)
       IN  IF r.res = "Ok"
           THEN /\ SetEngine(r.s)
                /\ phase' = "open"
                /\ lastOp' = Op("set", key, val, "Ok", None, r.merged, "none")
                /\ removed' = removed \ {key}
                /\ merge_file' = IF r.merged THEN None ELSE merge_file
           ELSE Panicked(Engine, "set", key, val)

\* KvStore::remove
Remove(key) ==
    /\ phase = "open"
    /\ key \in DOMAIN index => LogLen < MaxLogLen
    /\ LET r == remove(Engine, key)
       IN  CASE r.res = "Ok" ->
                  /\ SetEngine(r.s)
                  /\ lastOp' = Op("remove", key, EmptyStr, "Ok", None, FALSE,
                                  "none")
                  /\ removed' = removed \cup {key}
                  /\ UNCHANGED <<phase, merge_file>>
             [] r.res = "KeyNotFound" ->
                  /\ SetEngine(r.s)
                  /\ lastOp' = Op("remove", key, EmptyStr, "KeyNotFound",
                                  None, FALSE, "none")
                  /\ UNCHANGED <<phase, merge_file, removed>>
             [] OTHER -> Panicked(Engine, "remove", key, EmptyStr)

\* KvStore::get
Get(key) ==
    /\ phase = "open"
    /\ LET r == get(Engine, key)
       IN  lastOp' = Op("get", key, EmptyStr, r.tag, r.val, FALSE, "none")
    /\ UNCHANGED <<phase, data_file, merge_file, writer_buf, writer_pos,
                   index, pending_compact, removed>>

\* The owner drops the engine: the BufWriter flushes on drop.  The index the
\* engine held is kept for comparison with the next instance's; merged
\* tells whether the drop follows a set that ran a merge.
Close ==
    /\ phase = "open"
    /\ phase' = "closed"
    /\ data_file' = Some(BufFlush(WriterOf(Engine)).file)
    /\ writer_buf' = <<>>
    /\ lastOp' = Op("close", EmptyStr, EmptyStr, "Ok", None,
                    lastOp.op = "set" /\ lastOp.merged, "none")
    /\ UNCHANGED <<merge_file, writer_pos, index, pending_compact, removed>>

\* The process dies between two operations: the writer's buffer is lost.
Crash ==
    /\ phase = "open"
    /\ phase' = "dead"
    /\ NoEngine
    /\ lastOp' = Op("crash", EmptyStr, EmptyStr, "none", None, FALSE, "none")
    /\ UNCHANGED <<data_file, merge_file, removed>>

\* The process dies inside the merge that set(key, val) started, after the
\* given step of the merge.
PutCrashInMerge(key, val, step) ==
    /\ phase = "open"
    /\ LogLen < MaxLogLen
    /\ key \in DOMAIN index \/ pending_compact >= COMPACTION_THRESHOLD
    /\ LET w == write(Engine, EntryNew(key, val, PUT))
       IN  /\ w.res = "Ok"
           /\ w.s.pending_compact >= COMPACTION_THRESHOLD
           /\ merge_scan(w.s, 0, <<>>).valid_entry # <<>>
           /\ data_file' = MergeCrashDisk(w.s, step).data
           /\ merge_file' = MergeCrashDisk(w.s, step).merge
    /\ phase' = "dead"
    /\ NoEngine
    /\ lastOp' = Op("crash", key, val, "none", None, TRUE, step)
    /\ removed' = removed \ {key}

\* Header lengths at which the flush of a set fails.
TornLens == {1, USIZE_LEN, ENTRY_HEAD_LEN - 1}

\* KvStore::set whose flush fails after n bytes of the new record's header
\* have reached the file: write returns the I/O error.  The caller discards
\* the engine; the flush of the drop fails as well.
PutWriteFails(key, val, n) ==
    /\ phase = "open"
    /\ LogLen < MaxLogLen
    /\ LET e == EntryNew(key, val, PUT)
       IN  /\ size(e) < BUF_CAPACITY
           /\ write(Engine, e).res = "Ok"
           /\ data_file' = Some(BufFlush(WriterOf(Engine)).file
                                  \o <<Torn(encode(e), n)>>)
    /\ phase' = "closed"
    /\ NoEngine
    /\ lastOp' = Op("set", key, val, "IO", None, FALSE, "none")
    /\ UNCHANGED <<merge_file, removed>>

\* SimplifiedBitcask::open on the directory, after a drop ("clean") or after
\* the process died ("recovery").  A failed open returns no engine.  merged
\* tells whether the engine dropped before had just run a merge.
Open ==
    /\ phase \in {"closed", "dead"}
    /\ LET r == open(data_file)
       IN  IF r.res = "Ok"
           THEN /\ SetEngine(r.s)
                /\ phase' = "open"
           ELSE /\ data_file' = Some(r.s.file)
                /\ NoEngine
                /\ phase' = phase
    /\ lastOp' = Op("open", EmptyStr, EmptyStr, open(data_file).res, None,
                    lastOp.op = "close" /\ lastOp.merged,
                    IF phase = "closed" THEN "clean" ELSE "recovery")
    /\ UNCHANGED <<merge_file, removed>>

Next ==
    \/ \E key \in Keys, val \in Values : Put(key, val)
    \/ \E key \in Keys : Remove(key)
    \/ \E key \in Keys : Get(key)
    \/ Close
    \/ Crash
    \/ \E key \in Keys, val \in Values, step \in MergeSteps :
          PutCrashInMerge(key, val, step)
    \/ \E key \in Keys, val \in Values, n \in TornLens :
          PutWriteFails(key, val, n)
    \/ Open

Spec == Init /\ [][Next]_vars

\* ------------------------------------------------------------------ claims

\* What get returns for a stored value and for no value.
Found(val) == [tag |-> "Ok", val |-> Some(val)]

Absent == [tag |-> "Ok", val |-> None]

\* The engine as it was inside the last set, after write and before merge.
BeforeMerge == write(Engine, EntryNew(lastOp'.key, lastOp'.val, PUT)).s

\* C1: after a successful set(k, v), get(k) on the same engine returns v,
\* also when the set ran a merge and when k was overwritten or removed before.
C1_SetThenGet ==
    (phase = "open" /\ lastOp.op = "set" /\ lastOp.res = "Ok")
        => get(Engine, lastOp.key) = Found(lastOp.val)

\* C2: a key whose last set or remove was a successful remove is absent for
\* get, whatever happened since on other keys, through merges and reopens.
C2_RemovedStaysAbsent ==
    phase = "open" => \A k \in removed : get(Engine, k) = Absent

\* C2 witness: a removed key, after a set ran a merge and the engine was
\* then closed and reopened, with another key still stored.
C2_Witness ==
    /\ phase = "open"
    /\ removed # {}
    /\ lastOp.merged
    /\ lastOp.op = "open"
    /\ lastOp.step = "clean"
    /\ index # EmptyIndex

\* C3: remove of a key that is not in the index returns KeyNotFound and
\* changes nothing of the engine or the directory.
C3_RemoveMissing ==
    [][(phase = "open" /\ lastOp'.op = "remove"
            /\ lastOp'.key \notin DOMAIN index)
        => /\ lastOp'.res = "KeyNotFound"
           /\ UNCHANGED <<phase, data_file, merge_file, writer_buf,
                          writer_pos, index, pending_compact>>]_vars

\* C3 witness: KeyNotFound for a key that was removed before, while another
\* key is stored.
C3_Witness ==
    /\ lastOp.op = "remove"
    /\ lastOp.res = "KeyNotFound"
    /\ lastOp.key \in removed
    /\ index # EmptyIndex

C5_MergePreservesView ==
    [][(lastOp'.op = "set" /\ lastOp'.res = "Ok" /\ lastOp'.merged)
        => /\ \A k \in Keys : get(Engine', k) = get(BeforeMerge, k)
           /\ BeforeMerge.pending_compact # 0
                => ByteLen(data_file'[1]) <= ByteLen(BeforeMerge.file)]_vars

\* C6: after a crash at any step of a merge, open gives every key the value
\* that was durable when the merge started.
C6_CrashInMergeKeepsData ==
    [][(lastOp'.op = "crash" /\ lastOp'.step \in MergeSteps)
        => \A k \in Keys :
              get(open(data_file').s, k) = get(BeforeMerge, k)]_vars

\* C7: when set or remove has returned successfully the writer buffers
\* nothing, the active file is as long as the writer's offset, and a crash
\* followed by open gives back the index.
C7_FlushedOnReturn ==
    (phase = "open" /\ lastOp.op \in {"set", "remove"} /\ lastOp.res = "Ok")
        => /\ writer_buf = <<>>
           /\ ByteLen(data_file[1]) = writer_pos
           /\ open(data_file).s.index = index

\* C8: no public operation returns the internal EOF error.
C8_NoEofSurfaced ==
    lastOp.op \in {"get", "set", "remove", "open"} => lastOp.res # "EOF"

\* C9: every index entry is the offset of a record of the active file, and
\* that record is a PUT of the entry's key.
C9_IndexFidelity ==
    phase = "open" =>
        \A k \in DOMAIN index :
            /\ \E i \in 1..Len(data_file[1]) :
                  StartOf(data_file[1], i) = index[k]
            /\ read_at(data_file[1], index[k]).tag = "Ok"
            /\ read_at(data_file[1], index[k]).e.kind = PUT
            /\ read_at(data_file[1], index[k]).e.key = k

\* The positions in the active file of the records of key k.
RecordsOf(file, k) == {i \in 1..Len(file) : file[i].key = k}

\* The last record of key k in the file.
LastOf(file, k) ==
    CHOOSE i \in RecordsOf(file, k) : \A j \in RecordsOf(file, k) : j <= i

\* C10: a key is in the index exactly when the last record for it in the
\* active file is a PUT, and the index then holds that record's offset.
C10_LatestWins ==
    phase = "open" =>
        \A k \in Keys :
            LET file == data_file[1]
                live == /\ RecordsOf(file, k) # {}
                        /\ file[LastOf(file, k)].head[ENTRY_HEAD_LEN] = KindByte(PUT)
            IN  /\ (k \in DOMAIN index) <=> live
                /\ live => index[k] = StartOf(file, LastOf(file, k))

\* C11: between operations the writer's offset is the byte length of the
\* active file, and an operation that runs no merge does not shorten the file.
C11_WriterAtEnd ==
    [][/\ phase' = "open" => writer_pos' = ByteLen(data_file'[1])
       /\ (phase = "open" /\ phase' = "open"
               /\ ~(lastOp'.op = "set" /\ lastOp'.merged))
            => ByteLen(data_file'[1]) >= ByteLen(data_file[1])]_vars

\* Everything the writer has written: the active file and the bytes the
\* writer still buffers.
Log == data_file[1] \o writer_buf

RECURSIVE LiveBytes(_, _)
\* Total size of the records the index points at.
LiveBytes(log, idx) ==
    IF DOMAIN idx = {} THEN 0
    ELSE LET k == CHOOSE key \in DOMAIN idx : TRUE
         IN  size(read_at(log, idx[k]).e) + LiveBytes(log, erase(idx, k))

\* C12: pending_compact never exceeds the bytes a compaction would remove,
\* the length of the active file less the live records; it is 0 right after
\* open and right after a merge.
C12_ReclaimAccounting ==
    /\ phase = "open"
         => pending_compact <= ByteLen(data_file[1]) - LiveBytes(Log, index)
    /\ (phase = "open" /\ (lastOp.op = "open"
                             \/ (lastOp.op = "set" /\ lastOp.merged)))
         => pending_compact = 0

\* kvs main: the process outcome of one command, given what the engine
\* returned for it.  A failed unwrap and a panic inside the engine end the
\* process with status 101 and a message on standard error; set prints an
\* engine error and returns normally; rm exits 1 only on KeyNotFound.
kvs_main(command, res, out) ==
    CASE res = "Panic" ->
           [stdout |-> <<>>, stderr |-> <<"panic">>, exit |-> 101]
      [] command = "open" ->
           IF res = "Ok"
           THEN [stdout |-> <<>>, stderr |-> <<>>, exit |-> 0]
           ELSE [stdout |-> <<>>, stderr |-> <<"panic">>, exit |-> 101]
      [] command = "get" ->
           IF res = "Ok"
           THEN [stdout |-> IF out = None THEN <<"Key not found">> ELSE out,
                 stderr |-> <<>>, exit |-> 0]
           ELSE [stdout |-> <<>>, stderr |-> <<"panic">>, exit |-> 101]
      [] command = "set" ->
           IF res = "Ok"
           THEN [stdout |-> <<>>, stderr |-> <<>>, exit |-> 0]
           ELSE [stdout |-> <<>>, stderr |-> <<res>>, exit |-> 0]
      [] command = "remove" ->
           IF res = "KeyNotFound"
           THEN [stdout |-> <<"Key not found">>, stderr |-> <<>>, exit |-> 1]
           ELSE [stdout |-> <<>>, stderr |-> <<>>, exit |-> 0]
      [] OTHER -> [stdout |-> <<>>, stderr |-> <<>>, exit |-> 0]

\* C13: the set command exits with status 0 only when the engine's set
\* succeeded; when set did not succeed the process writes a diagnostic to
\* standard error and exits non-zero.
C13_SetExitStatus ==
    lastOp.op = "set"
      => LET r == kvs_main("set", lastOp.res, lastOp.out)
         IN  /\ r.exit = 0 <=> lastOp.res = "Ok"
             /\ lastOp.res # "Ok" => r.stderr # <<>>

\* Read::read_exact of n bytes, from bytes after the header of the encoded
\* record b on: the runs of equal bytes read, as one string when they form
\* one.  Fewer than n bytes left is an error.
read_exact(b, from, n) ==
    LET kl == b.key.len
        end == kl + b.value.len
        hi == from + n
        of_key == IF hi < kl THEN hi - from ELSE IF from < kl THEN kl - from
                                                 ELSE 0
        of_val == (IF hi < end THEN hi ELSE end)
                    - (IF from > kl THEN from ELSE kl)
    IN  IF hi > end THEN [tag |-> "IO", str |-> EmptyStr]
        ELSE [tag |-> "Ok",
              str |-> CASE of_key = 0 /\ of_val <= 0 -> EmptyStr
                        [] of_key > 0 /\ of_val <= 0 -> Str(b.key.ch, of_key)
                        [] of_key = 0 /\ of_val > 0 -> Str(b.value.ch, of_val)
                        [] OTHER -> <<Str(b.key.ch, of_key),
                                      Str(b.value.ch, of_val)>>]

\* SimplifiedBitcask::read_at at offset 0 of a file that holds the encoded
\* record b: the header is decoded, then key_len and value_len bytes are
\* read.
read_record(b) ==
    LET d == decode(HeaderBuf(b.head))
        k == read_exact(b, 0, d.e.key_len)
        v == read_exact(b, d.e.key_len, d.e.value_len)
    IN  IF Len(b.head) = 0 THEN [tag |-> "EOF", e |-> d.e]
        ELSE IF d.tag # "Ok" THEN d
        ELSE IF k.tag # "Ok" \/ v.tag # "Ok" THEN [tag |-> "IO", e |-> d.e]
        ELSE [tag |-> "Ok", e |-> [d.e EXCEPT !.key = k.str, !.value = v.str]]

\* The entry a successful set or remove has written.
WrittenEntry ==
    EntryNew(lastOp.key, lastOp.val, IF lastOp.op = "set" THEN PUT ELSE DEL)

\* C14: for the entry e that a set or a remove writes, the encoded buffer is
\* size(e) = ENTRY_HEAD_LEN + key_len + value_len bytes long, and decoding
\* its header and reading key_len and value_len bytes after it gives back
\* e's kind, key_len, value_len, key and value; read_at on a file that holds
\* the buffer returns the same entry.
C14_FormatRoundTrip ==
    (lastOp.op \in {"set", "remove"} /\ lastOp.res = "Ok")
      => LET e == WrittenEntry
             b == encode(e)
         IN  /\ Len(b.head) = ENTRY_HEAD_LEN
             /\ FrameLen(b) = size(e)
             /\ size(e) = ENTRY_HEAD_LEN + e.key_len + e.value_len
             /\ read_record(b) = [tag |-> "Ok", e |-> e]
             /\ read_at(<<b>>, 0) = [tag |-> "Ok", e |-> e]

\* A set of the long value has succeeded and the file holds a DEL record.
C14_Witness ==
    /\ lastOp.op = "set" /\ lastOp.res = "Ok" /\ lastOp.val.len = BigLen
    /\ phase = "open"
    /\ \E i \in 1..Len(data_file[1]) :
          data_file[1][i].head = encode(EntryNew(data_file[1][i].key,
                                                 EmptyStr, DEL)).head

\* C15 as stated: between operations pending_compact is below
\* COMPACTION_THRESHOLD, because set and remove both run the merge when the
\* threshold is reached.
C15_BelowThresholdBetweenOps ==
    phase = "open" => pending_compact < COMPACTION_THRESHOLD

\* C15: the compaction trigger is part of set only.  A successful set runs
\* a merge exactly when pending_compact has reached COMPACTION_THRESHOLD
\* after its record was appended, so pending_compact is below the threshold
\* when set returns; a successful remove appends its DEL record and runs no
\* merge, whatever pending_compact has become.
C15_TriggerInSetOnly ==
    [][/\ (phase = "open" /\ lastOp'.op = "set" /\ lastOp'.res = "Ok")
            => /\ pending_compact' < COMPACTION_THRESHOLD
               /\ lastOp'.merged
                    <=> BeforeMerge.pending_compact >= COMPACTION_THRESHOLD
       /\ (phase = "open" /\ lastOp'.op = "remove" /\ lastOp'.res = "Ok")
            => LET w == write(Engine, EntryNew(lastOp'.key, EmptyStr, DEL)).s
               IN  /\ ~lastOp'.merged
                   /\ pending_compact' = w.pending_compact
                   /\ data_file' = Some(w.file)
                   /\ writer_buf' = w.buf
                   /\ w.file \o w.buf
                        = Log \o <<encode(EntryNew(lastOp'.key, EmptyStr,
                                                   DEL))>>]_vars

\* A remove has returned Ok and left pending_compact at or above the
\* threshold.
C15_Witness ==
    /\ phase = "open"
    /\ lastOp.op = "remove" /\ lastOp.res = "Ok"
    /\ pending_compact >= COMPACTION_THRESHOLD

\* C16: when a set has run a merge, the new active file holds exactly one
\* PUT record for every key of the index and no other record, its length is
\* the total size of the records that were live before the merge, the index
\* has the keys it had before the merge, and every key's offset is the start
\* of its record in the new file.
C16_MergedFileContent ==
    [][(phase = "open" /\ lastOp'.op = "set" /\ lastOp'.res = "Ok"
            /\ lastOp'.merged)
         => LET f == data_file'[1]
            IN  /\ DOMAIN index' = DOMAIN BeforeMerge.index
                /\ Len(f) = Cardinality(DOMAIN index')
                /\ \A k \in DOMAIN index' :
                      \E i \in 1..Len(f) :
                         /\ StartOf(f, i) = index'[k]
                         /\ f[i].key = k
                         /\ Len(f[i].head) = ENTRY_HEAD_LEN
                         /\ f[i].head[ENTRY_HEAD_LEN] = KindByte(PUT)
                /\ ByteLen(f)
                     = LiveBytes(BeforeMerge.file, BeforeMerge.index)]_vars

\* The file ends in a record of which only a part of the header, 1 to
\* ENTRY_HEAD_LEN - 1 bytes, was written.
TornTail(data) ==
    /\ data # None
    /\ data[1] # <<>>
    /\ Len(data[1][Len(data[1])].head) \in 1..(ENTRY_HEAD_LEN - 1)

\* The file without its last record.
Front(file) == SubSeq(file, 1, Len(file) - 1)

RecordBytesAt(log, offset) ==
    LET i == CHOOSE j \in 1..Len(log) : StartOf(log, j) = offset
    IN  FrameLen(log[i])

\* Size of the record that the index holds for key, 0 when it holds none.
Superseded(key) ==
    IF key \in DOMAIN index THEN RecordBytesAt(Log, index[key]) ELSE 0

\* C18: on one engine, a successful set or remove of a key that the index
\* holds adds the full size of the record the index pointed at to
\* pending_compact, a set of a key the index does not hold adds nothing, the
\* size of the new record (a DEL record included) is not added, a set that
\* runs a merge leaves 0, and get and a remove that fails leave
\* pending_compact as it was.
C18_PendingCompactAccounting ==
    [][(phase = "open" /\ phase' = "open")
         => pending_compact'
              = CASE lastOp'.op = "set" /\ lastOp'.merged -> 0
                  [] lastOp'.op = "set" /\ ~lastOp'.merged ->
                       pending_compact + Superseded(lastOp'.key)
                  [] lastOp'.op = "remove" /\ lastOp'.res = "Ok" ->
                       pending_compact + Superseded(lastOp'.key)
                  [] OTHER -> pending_compact]_vars

\* A remove has returned Ok after two records of its key were superseded:
\* pending_compact is the size of the two PUT records, the DEL record is not
\* counted.
C18_Witness ==
    /\ phase = "open"
    /\ lastOp.op = "remove" /\ lastOp.res = "Ok"
    /\ Len(data_file[1]) = 3
    /\ pending_compact = 2 * size(EntryNew(lastOp.key, Str("x", 1), PUT))

\* C19: when set or remove finds an index offset for its key, the read of
\* the record at that offset through the reader succeeds, and the operation
\* does not panic.
C19_SupersededReadSucceeds ==
    [][(phase = "open" /\ lastOp'.op \in {"set", "remove"}
            /\ lastOp'.key \in DOMAIN index)
         => /\ read_at(data_file[1], index[lastOp'.key]).tag = "Ok"
            /\ lastOp'.res # "Panic"]_vars

\* C20: a merge runs only inside set, after the new PUT record has been
\* written and indexed: the records the merge finds live include the record
\* just set, so the live set is not empty, and the merge replaces the active
\* file by the live records.  remove, get and open run no merge: remove only
\* appends its DEL record and never lowers pending_compact, get and open
\* leave an existing file as it is.
C20_MergeOnlyFromSet ==
    [][/\ (phase = "open" /\ lastOp'.op = "set" /\ lastOp'.merged)
            => \A live \in {merge_scan(s, 0, <<>>) : s \in {BeforeMerge}} :
                  /\ live.res = "Ok"
                  /\ \E i \in 1..Len(live.valid_entry) :
                        /\ live.valid_entry[i].key = lastOp'.key
                        /\ live.valid_entry[i].value = lastOp'.val
                  /\ lastOp'.res = "Ok"
                  /\ data_file'[1] \o writer_buf'
                       = [i \in 1..Len(live.valid_entry)
                            |-> encode(live.valid_entry[i])]
       /\ (phase = "open" /\ phase' = "open" /\ lastOp'.op = "remove")
            => LET log == Log
                   after == data_file'[1] \o writer_buf'
               IN  /\ ~lastOp'.merged
                   /\ pending_compact' >= pending_compact
                   /\ Len(after) >= Len(log)
                   /\ SubSeq(after, 1, Len(log)) = log
       /\ (phase = "open" /\ lastOp'.op = "get")
            => data_file' = data_file /\ writer_buf' = writer_buf
       /\ (lastOp'.op = "open" /\ data_file # None)
            => data_file' = data_file]_vars

\* A set has run a merge whose only live record is the one just set: every
\* other key has been removed.
C20_Witness ==
    /\ phase = "open"
    /\ lastOp.op = "set" /\ lastOp.res = "Ok" /\ lastOp.merged
    /\ DOMAIN index = {lastOp.key}
    /\ removed # {}

====
